---- MODULE Spec2Model ----
(***************************************************************************)
(* Model of the pre-registo -> DGAV conversion (src/processor.py) and of   *)
(* the re-scan of the generated document (src/app.py).                     *)
(*                                                                         *)
(* Text is a sequence of one-character strings.  A cell value is a record  *)
(* [t, s, h]: t is the Python type of the value ("None", "nan", "str",     *)
(* "datetime", "date", "formula"), s its text and h the time of day of a   *)
(* datetime.  A worksheet is a record [cells, tables, validations]; cells  *)
(* is a function from <<row, column>> to a cell [value, style, fill,       *)
(* hyperlink, comment], defined exactly on the cells the sheet holds.      *)
(***************************************************************************)
EXTENDS Integers, Sequences, FiniteSets, TLC

\* ------------------------------------------------------------------ bounds
\* rows below the header row of an uploaded pre-registo
MaxDataRows == 2
\* rows (header included) of the DGAV template sheet
MaxTemplateRows == 3
\* rows of a grid handed to _find_header_row on its own
MaxGridRows == 3
MaxUploads == 3

\* ------------------------------------------------------------------- text
NBSP == "\\u00A0"
WhiteSpace == {" ", "\t", "\n"}

UpperChars ==
  <<"A","B","C","D","E","F","G","H","I","J","K","L","M",
    "N","O","P","Q","R","S","T","U","V","W","X","Y","Z">>
LowerChars ==
  <<"a","b","c","d","e","f","g","h","i","j","k","l","m",
    "n","o","p","q","r","s","t","u","v","w","x","y","z">>

\* unicodedata.normalize("NFD", ch) with the combining marks (category Mn)
\* removed: an accented letter is left as its base letter
BaseChar(ch) ==
  CASE ch \in {"á","à","ã","â"} -> "a"
    [] ch \in {"é","ê"}         -> "e"
    [] ch = "í"                 -> "i"
    [] ch \in {"ó","õ","ô"}     -> "o"
    [] ch = "ú"                 -> "u"
    [] ch = "ç"                 -> "c"
    [] ch \in {"Á","Ã"}         -> "A"
    [] ch = "É"                 -> "E"
    [] ch = "Ó"                 -> "O"
    [] ch = "Ç"                 -> "C"
    [] OTHER                    -> ch

LowerChar(ch) ==
  IF \E i \in 1..Len(UpperChars) : UpperChars[i] = ch
  THEN LowerChars[CHOOSE i \in 1..Len(UpperChars) : UpperChars[i] = ch]
  ELSE ch

\* str.replace(old, new) for one-character old and new
Replace(s, old, new) == [i \in 1..Len(s) |-> IF s[i] = old THEN new ELSE s[i]]

\* " ".join(s.split()): runs of white space become one space, none at the ends
JoinSplit(s) ==
  LET word(i) == s[i] \notin WhiteSpace
      kept == {i \in 1..Len(s) :
                 \/ word(i)
                 \/ i > 1 /\ word(i - 1) /\ \E j \in (i + 1)..Len(s) : word(j)}
      at(k) == CHOOSE i \in kept : Cardinality({j \in kept : j <= i}) = k
  IN  [k \in 1..Cardinality(kept) |-> IF word(at(k)) THEN s[at(k)] ELSE " "]

\* s.strip()
Strip(s) ==
  LET words == {i \in 1..Len(s) : s[i] \notin WhiteSpace}
  IN  IF words = {} THEN <<>>
      ELSE SubSeq(s, CHOOSE i \in words : \A j \in words : i <= j,
                     CHOOSE i \in words : \A j \in words : j <= i)

\* the body of _norm on a text
NormText(s) ==
  LET s1 == Replace(s, NBSP, " ")
      s2 == [i \in 1..Len(s1) |-> BaseChar(s1[i])]
      s3 == Replace(Replace(s2, "_", " "), "-", " ")
      s4 == [i \in 1..Len(s3) |-> LowerChar(s3[i])]
      s5 == JoinSplit(s4)
  IN  Strip(s5)

\* s contains sub
Contains(s, sub) ==
  \E k \in 0..(Len(s) - Len(sub)) : SubSeq(s, k + 1, k + Len(sub)) = sub

\* ----------------------------------------------------------------- values
None == [t |-> "None", s |-> <<>>, h |-> <<>>]
NaN == [t |-> "nan", s |-> <<>>, h |-> <<>>]
StrV(s) == [t |-> "str", s |-> s, h |-> <<>>]
DateTimeV(d, h) == [t |-> "datetime", s |-> d, h |-> h]
DateV(d) == [t |-> "date", s |-> d, h |-> <<>>]
FormulaV(s) == [t |-> "formula", s |-> s, h |-> <<>>]

\* str(value)
Str(v) ==
  CASE v.t = "None"     -> <<"N","o","n","e">>
    [] v.t = "nan"      -> <<"n","a","n">>
    [] v.t = "datetime" -> v.s \o <<" ">> \o v.h
    [] OTHER            -> v.s

\* pandas isna, as dropna uses it
IsNA(v) == v.t \in {"None", "nan"}
\* Python truth of a cell value
Truthy(v) == ~(v.t = "None" \/ (v.t = "str" /\ v.s = <<>>))
\* v in (None, "")
IsEmpty(v) == v.t = "None" \/ (v.t = "str" /\ v.s = <<>>)

\* -------------------------------------------------------- the DGAV schema
\* DGAV column name -> label of the column in the pre-registo, in dict order
INPUT_TO_DGAV_COLMAP ==
  <<
    [dgav  |-> <<"D","A","T","A","_","R","E","C","E","P","C","A","O">>,
     label |-> <<"D","a","t","a"," ","r","e","c","e","p","ç","ã","o"," ","a","m",
                "o","s","t","r","a","s">>],
    [dgav  |-> <<"D","A","T","A","_","C","O","L","H","E","I","T","A">>,
     label |-> <<"D","a","t","a"," ","c","o","l","h","e","i","t","a">>],
    [dgav  |-> <<"C","O","D","I","G","O","_","A","M","O","S","T","R","A">>,
     label |-> <<"C","ó","d","i","g","o","_","a","m","o","s","t","r","a"," ","(",
                "C","ó","d","i","g","o"," ","o","r","i","g","i","n","a","l"," ",
                "/"," ","R","e","f","e","r","ê","n","c","i","a"," ","a","m","o",
                "s","t","r","a",")">>],
    [dgav  |-> <<"H","O","S","P","E","D","E","I","R","O">>,
     label |-> <<"E","s","p","é","c","i","e"," ","i","n","d","i","c","a","d","a",
                " ","/"," ","H","o","s","p","e","d","e","i","r","o">>],
    [dgav  |-> <<"T","I","P","O","_","A","M","O","S","T","R","A">>,
     label |-> <<"T","i","p","o"," ","a","m","o","s","t","r","a"," ","S","i","m",
                "p","l","e","s"," ","/"," ","C","o","m","p","o","s","t","a">>],
    [dgav  |-> <<"I","D","_","Z","O","N","A">>,
     label |-> <<"I","d"," ","Z","o","n","a"," ","(","C","l","a","s","s","i","f",
                "i","c","a","ç","ã","o"," ","d","e"," ","z","o","n","a"," ","d",
                "e"," ","o","r","i","g","e","m",")">>],
    [dgav  |-> <<"C","O","D","_","I","N","T","_","L","A","B">>,
     label |-> <<"C","ó","d","i","g","o"," ","i","n","t","e","r","n","o"," ","L",
                "a","b">>],
    [dgav  |-> <<"D","A","T","A","_","R","E","Q","U","E","R","I","D","O">>,
     label |-> <<"D","a","t","a"," ","r","e","q","u","e","r","i","d","o">>],
    [dgav  |-> <<"R","E","S","P","O","N","S","A","V","E","L","_","A","M","O","S",
                "T","R","A","G","E","M">>,
     label |-> <<"R","e","s","p","o","n","s","á","v","e","l"," ","A","m","o","s",
                "t","r","a","g","e","m"," ","(","Z","o","n","a"," ","c","o","l",
                "h","e","i","t","a",")">>],
    [dgav  |-> <<"R","E","S","P","_","C","O","L","H","E","I","T","A">>,
     label |-> <<"R","e","s","p","o","n","s","á","v","e","l"," ","c","o","l","h",
                "e","i","t","a"," ","(","T","é","c","n","i","c","o"," ","r","e",
                "s","p","o","n","s","á","v","e","l",")">>],
    [dgav  |-> <<"P","R","E","P","_","C","O","M","M","E","N","T","S">>,
     label |-> <<"P","r","e","p","_","C","o","m","m","e","n","t","s"," ","(","O",
                "b","s","e","r","v","a","ç","õ","e","s"," ","c","l","i","e","n",
                "t","e",")">>],
    [dgav  |-> <<"P","R","O","C","E","D","U","R","E">>,
     label |-> <<"P","r","o","c","e","d","u","r","e">>]
  >>

REQUIRED_DGAV_COLS ==
  <<
    <<"D","A","T","A","_","R","E","C","E","P","C","A","O">>,
    <<"D","A","T","A","_","C","O","L","H","E","I","T","A">>,
    <<"C","O","D","I","G","O","_","A","M","O","S","T","R","A">>,
    <<"H","O","S","P","E","D","E","I","R","O">>,
    <<"T","I","P","O","_","A","M","O","S","T","R","A">>,
    <<"I","D","_","Z","O","N","A">>,
    <<"P","R","O","C","E","D","U","R","E">>,
    <<"C","O","D","_","I","N","T","_","L","A","B">>,
    <<"D","A","T","A","_","R","E","Q","U","E","R","I","D","O">>
  >>

DgavCols == {INPUT_TO_DGAV_COLMAP[k].dgav : k \in 1..Len(INPUT_TO_DGAV_COLMAP)}
LabelOf(dgav_col) ==
  INPUT_TO_DGAV_COLMAP[CHOOSE k \in 1..Len(INPUT_TO_DGAV_COLMAP) :
                         INPUT_TO_DGAV_COLMAP[k].dgav = dgav_col].label
CODIGO_AMOSTRA == INPUT_TO_DGAV_COLMAP[3].dgav
HOSPEDEIRO == INPUT_TO_DGAV_COLMAP[4].dgav
PREP_COMMENTS == INPUT_TO_DGAV_COLMAP[11].dgav

\* the label _load_pre_registo_df hands to _find_header_row
HeaderTarget ==
  <<"C","ó","d","i","g","o","_","a","m","o","s","t","r","a"," ","(",
    "C","ó","d","i","g","o"," ","o","r","i","g","i","n","a","l"," ",
    "/"," ","R","e","f","e","r","ê","n","c","i","a"," ","a","m","o",
    "s","t","r","a",")">>

\* the substring of the second pass
FallbackSubstring == <<"c","o","d","i","g","o"," ","a","m","o","s","t","r","a">>

\* the anchor label as another revision of the form writes it
AnchorVariant ==
  <<"C","O","D","I","G","O","-","A","M","O","S","T","R","A"," "," ",
    "(","c","ó","d","i","g","o"," ","o","r","i","g","i","n","a","l",
    " ","/"," ","r","e","f","e","r","e","n","c","i","a"," ","a","m",
    "o","s","t","r","a",")">>
\* a header that only contains the fallback substring
FallbackLabel ==
  <<"R","e","f","."," ","C","ó","d","i","g","o","_","A","m","o","s",
    "t","r","a">>
\* a title line above the header that mentions the sample code
TitleText ==
  <<"P","r","é","-","r","e","g","i","s","t","o",":"," ","c","ó","d",
    "i","g","o"," ","a","m","o","s","t","r","a"," ","e"," ","h","o",
    "s","p","e","d","e","i","r","o">>
\* a text with no relation to the anchor
PlainText ==
  <<"L","a","b","o","r","a","t","ó","r","i","o">>
\* a sample code
SampleCode ==
  <<"X","1">>
\* a default text of the template
TemplateText ==
  <<"S","I","M">>
\* the CODIGO_AMOSTRA header as a revised template writes it
DgavCodigoVariant ==
  <<"C","ó","d","i","g","o","-","A","m","o","s","t","r","a">>
\* a date
SampleDate ==
  <<"2","0","2","4","-","0","5","-","1","7">>
\* a time of day
SampleTime ==
  <<"1","0",":","3","0",":","0","0">>
\* a formula of the template
TemplateFormula ==
  <<"=","T","O","D","A","Y","(",")">>

\* ------------------------------------------------------------------ _norm
\* the texts of the model, and NormText of each, computed once
KnownTexts ==
  DgavCols \cup {LabelOf(d) : d \in DgavCols}
    \cup {HeaderTarget, AnchorVariant, FallbackLabel, TitleText, PlainText, SampleCode,
          TemplateText, DgavCodigoVariant, TemplateFormula, SampleDate,
          SampleDate \o <<" ">> \o SampleTime, <<"N","o","n","e">>, <<"n","a","n">>, <<>>}
NormTable == [s \in KnownTexts |-> NormText(s)]
Norm(s) == IF s \in KnownTexts THEN NormTable[s] ELSE NormText(s)

_norm(text) == IF text.t = "None" THEN <<>> ELSE Norm(Str(text))

\* --------------------------------------------------- reading the pre-registo
\* row.astype(str).apply(_norm)
RowNorms(row) == [c \in 1..Len(row) |-> Norm(Str(row[c]))]

RowEq(row, target_norm) == \E c \in 1..Len(row) : RowNorms(row)[c] = target_norm
RowContains(row, sub) == \E c \in 1..Len(row) : Contains(RowNorms(row)[c], sub)

\* the first pass: the loop over df_raw.iterrows() from position i on (0-based idx)
RECURSIVE FirstExact(_, _, _)
FirstExact(df_raw, i, target_norm) ==
  IF i > Len(df_raw) THEN [found |-> FALSE, idx |-> 0]
  ELSE IF RowEq(df_raw[i], target_norm) THEN [found |-> TRUE, idx |-> i - 1]
  ELSE FirstExact(df_raw, i + 1, target_norm)

\* the second pass
RECURSIVE FirstContains(_, _)
FirstContains(df_raw, i) ==
  IF i > Len(df_raw) THEN [found |-> FALSE, idx |-> 0]
  ELSE IF RowContains(df_raw[i], FallbackSubstring) THEN [found |-> TRUE, idx |-> i - 1]
  ELSE FirstContains(df_raw, i + 1)

\* a plausible slip: one pass that takes the first row matching either way
RECURSIVE FirstEither(_, _, _)
FirstEither(df_raw, i, target_norm) ==
  IF i > Len(df_raw) THEN [found |-> FALSE, idx |-> 0]
  ELSE IF RowEq(df_raw[i], target_norm) \/ RowContains(df_raw[i], FallbackSubstring)
       THEN [found |-> TRUE, idx |-> i - 1]
  ELSE FirstEither(df_raw, i + 1, target_norm)

find_header_row_onepass(df_raw, target) == FirstEither(df_raw, 1, Norm(target))

\* found = FALSE stands for the ValueError of line 103
_find_header_row(df_raw, target) ==
  LET target_norm == Norm(target)
      exact == FirstExact(df_raw, 1, target_norm)
  IN  IF exact.found THEN exact ELSE FirstContains(df_raw, 1)

RECURSIVE Ascending(_)
Ascending(S) ==
  IF S = {} THEN <<>>
  ELSE LET m == CHOOSE x \in S : \A y \in S : x <= y
       IN  <<m>> \o Ascending(S \ {m})

\* df.dropna(how="all") keeps a row that has a cell which is not NA
AllNA(row) == \A c \in 1..Len(row) : IsNA(row[c])

\* the DataFrame: columns are the header row's values, index the 0-based
\* positions of the rows kept, rows their values; ok = FALSE when
\* _find_header_row raised
_load_pre_registo_df(rows) ==
  LET hr == _find_header_row(rows, HeaderTarget)
      kept == {i \in (hr.idx + 2)..Len(rows) : ~AllNA(rows[i])}
      index == Ascending(kept)
  IN  IF ~hr.found THEN [ok |-> FALSE, columns |-> <<>>, index |-> <<>>, rows |-> <<>>]
      ELSE [ok |-> TRUE, columns |-> rows[hr.idx + 1],
            index |-> [k \in 1..Len(index) |-> index[k] - 1],
            rows |-> [k \in 1..Len(index) |-> rows[index[k]]]]

\* ------------------------------------------------------- _map_input_columns
\* norm_to_real.get(key_norm): the last column whose normalized header is the key
NormToReal(columns, key_norm) ==
  LET hits == {c \in 1..Len(columns) : _norm(columns[c]) = key_norm}
  IN  IF hits = {} THEN None
      ELSE columns[CHOOSE c \in hits : \A d \in hits : d <= c]

\* { dgav_col -> header value of the DataFrame column, or None }
_map_input_columns(df) ==
  [dgav_col \in DgavCols |-> NormToReal(df.columns, Norm(LabelOf(dgav_col)))]

\* row_in.get(df_col_name): the value under the column labelled df_col_name
RowGet(columns, row_in, df_col_name) ==
  IF \E c \in 1..Len(columns) : columns[c] = df_col_name
  THEN row_in[CHOOSE c \in 1..Len(columns) : columns[c] = df_col_name]
  ELSE None

\* lines 256-262: NaN becomes None, a datetime loses its time of day
Transform(value) ==
  LET v1 == IF value.t = "nan" THEN None ELSE value
  IN  IF v1.t = "datetime" THEN DateV(v1.s) ELSE v1

\* ------------------------------------------------------------ the worksheet
\* the cell ws.cell(row, column) creates when the sheet has none there
NewCell == [value |-> None, style |-> "default", fill |-> "none",
            hyperlink |-> "none", comment |-> "none"]
RedFill == "FFFF0000"

Rows(ws) == {k[1] : k \in DOMAIN ws.cells}
Columns(ws) == {k[2] : k \in DOMAIN ws.cells}
Greatest(S) == CHOOSE x \in S : \A y \in S : y <= x
max_row(ws) == IF DOMAIN ws.cells = {} THEN 1 ELSE Greatest(Rows(ws))
max_column(ws) == IF DOMAIN ws.cells = {} THEN 1 ELSE Greatest(Columns(ws))

\* ws.cell(row, column), read only
CellAt(ws, r, c) == IF <<r, c>> \in DOMAIN ws.cells THEN ws.cells[<<r, c>>] ELSE NewCell

\* the sheet after ws.cell(row, column) for every <<row, column>> of keys
Touch(ws, keys) ==
  [ws EXCEPT !.cells = [k \in DOMAIN ws.cells \cup keys |-> CellAt(ws, k[1], k[2])]]

\* ws.cell(r, c).value = v
SetValue(ws, r, c, v) ==
  [ws EXCEPT !.cells = [k \in DOMAIN ws.cells \cup {<<r, c>>} |->
     IF k = <<r, c>> THEN [CellAt(ws, r, c) EXCEPT !.value = v] ELSE ws.cells[k]]]

\* ws.cell(r, c).fill = fill
SetFill(ws, r, c, fill) ==
  [ws EXCEPT !.cells = [k \in DOMAIN ws.cells \cup {<<r, c>>} |->
     IF k = <<r, c>> THEN [CellAt(ws, r, c) EXCEPT !.fill = fill] ELSE ws.cells[k]]]

\* ws.delete_rows(idx, amount): rows idx..idx+amount-1 go, the rows below move up
delete_rows(ws, idx, amount) ==
  LET keep == {k \in DOMAIN ws.cells : k[1] < idx \/ k[1] >= idx + amount}
      to(k) == IF k[1] < idx THEN k ELSE <<k[1] - amount, k[2]>>
      from(k) == IF k[1] < idx THEN k ELSE <<k[1] + amount, k[2]>>
  IN  [ws EXCEPT !.cells = [k \in {to(j) : j \in keep} |-> ws.cells[from(k)]]]

\* _build_header_index: normalized header -> column; of two columns with the
\* same normalized header the later one stays in the dict
HeaderNames(ws) ==
  {_norm(CellAt(ws, 1, c).value) : c \in {d \in 1..max_column(ws) : Truthy(CellAt(ws, 1, d).value)}}
_build_header_index(ws) ==
  [n \in HeaderNames(ws) |->
     Greatest({c \in 1..max_column(ws) :
                 Truthy(CellAt(ws, 1, c).value) /\ _norm(CellAt(ws, 1, c).value) = n})]

\* header_indices.get(name)
HasColumn(header_indices, name) == name \in DOMAIN header_indices

\* ------------------------------------------------- _mark_required_empty_columns
Least(S) == CHOOSE x \in S : \A y \in S : x <= y

\* a plausible slip: a column is flagged only when all its cells are empty
RECURSIVE MarkAllEmptyFrom(_, _, _, _, _)
MarkAllEmptyFrom(ws, k, header_indices, start_row, last_row) ==
  IF k > Len(REQUIRED_DGAV_COLS) THEN ws
  ELSE LET name == Norm(REQUIRED_DGAV_COLS[k])
       IN  IF ~HasColumn(header_indices, name)
           THEN MarkAllEmptyFrom(ws, k + 1, header_indices, start_row, last_row)
           ELSE LET col_idx == header_indices[name]
                    all_empty == \A r \in start_row..last_row : IsEmpty(CellAt(ws, r, col_idx).value)
                    ws1 == Touch(ws, {<<r, col_idx>> : r \in start_row..last_row})
                    ws2 == IF all_empty THEN SetFill(ws1, 1, col_idx, RedFill) ELSE ws1
                IN  MarkAllEmptyFrom(ws2, k + 1, header_indices, start_row, last_row)

mark_required_all_empty(ws, header_indices, start_row, last_row) ==
  MarkAllEmptyFrom(ws, 1, header_indices, start_row, last_row)

\* the loop over REQUIRED_DGAV_COLS from its k-th name on; the scan of a column
\* reads (and so creates) its cells down to the first empty one
RECURSIVE MarkFrom(_, _, _, _, _)
MarkFrom(ws, k, header_indices, start_row, last_row) ==
  IF k > Len(REQUIRED_DGAV_COLS) THEN ws
  ELSE LET name == Norm(REQUIRED_DGAV_COLS[k])
       IN  IF ~HasColumn(header_indices, name)
           THEN MarkFrom(ws, k + 1, header_indices, start_row, last_row)
           ELSE LET col_idx == header_indices[name]
                    empties == {r \in start_row..last_row : IsEmpty(CellAt(ws, r, col_idx).value)}
                    any_empty == empties # {}
                    seen == IF any_empty THEN start_row..Least(empties) ELSE start_row..last_row
                    ws1 == Touch(ws, {<<r, col_idx>> : r \in seen})
                    ws2 == IF any_empty THEN SetFill(ws1, 1, col_idx, RedFill) ELSE ws1
                IN  MarkFrom(ws2, k + 1, header_indices, start_row, last_row)

_mark_required_empty_columns(ws, header_indices, start_row, last_row) ==
  MarkFrom(ws, 1, header_indices, start_row, last_row)

\* ---------------------------------------------------------------- table refs
DigitChars == <<"0","1","2","3","4","5","6","7","8","9">>
IsDigit(ch) == \E i \in 1..Len(DigitChars) : DigitChars[i] = ch
IsAlpha(ch) ==
  \E i \in 1..Len(UpperChars) : UpperChars[i] = ch \/ LowerChars[i] = ch
DigitValue(ch) == (CHOOSE i \in 1..Len(DigitChars) : DigitChars[i] = ch) - 1

\* int(text) for a text of digits
RECURSIVE ParseInt(_)
ParseInt(s) ==
  IF s = <<>> THEN 0
  ELSE 10 * ParseInt(SubSeq(s, 1, Len(s) - 1)) + DigitValue(s[Len(s)])

\* str(n) for n >= 0
RECURSIVE IntText(_)
IntText(n) ==
  IF n < 10 THEN <<DigitChars[n + 1]>>
  ELSE IntText(n \div 10) \o <<DigitChars[(n % 10) + 1]>>

\* ref.split(':') of a ref with one colon
ColonAt(ref) == CHOOSE p \in 1..Len(ref) : ref[p] = ":"
RefStart(ref) == SubSeq(ref, 1, ColonAt(ref) - 1)
RefEnd(ref) == SubSeq(ref, ColonAt(ref) + 1, Len(ref))
RefStartCol(ref) == SelectSeq(RefStart(ref), IsAlpha)
RefStartRow(ref) == ParseInt(SelectSeq(RefStart(ref), IsDigit))
RefEndCol(ref) == SelectSeq(RefEnd(ref), IsAlpha)
RefEndRow(ref) == ParseInt(SelectSeq(RefEnd(ref), IsDigit))

\* a plausible slip: the table keeps the larger of its old end row and last_row
resize_table_keep_larger(table, last_row) ==
  [table EXCEPT !.ref =
     RefStartCol(table.ref) \o IntText(RefStartRow(table.ref)) \o <<":">>
       \o RefEndCol(table.ref)
       \o IntText(IF RefEndRow(table.ref) > last_row THEN RefEndRow(table.ref) ELSE last_row)]

\* lines 277-282, for one table
ResizeTable(table, last_row) ==
  LET start_col == RefStartCol(table.ref)
      start_row == RefStartRow(table.ref)
      end_col == RefEndCol(table.ref)
  IN  [table EXCEPT !.ref =
         start_col \o IntText(start_row) \o <<":">> \o end_col \o IntText(last_row)]

\* ------------------------------------------------------ process_pre_to_dgav
start_row == 2

\* a plausible slip: last_row = start_row + n_samples
last_row_one_too_far(n_samples) == IF n_samples > 0 THEN start_row + n_samples ELSE 1

\* last_row of line 233
LastRow(n_samples) == IF n_samples > 0 THEN start_row + n_samples - 1 ELSE 1

\* base_values: the values of row 2 of the template, by normalized header
BaseValues(ws, header_indices) ==
  [n \in DOMAIN header_indices |-> CellAt(ws, 2, header_indices[n]).value]

\* a plausible slip: base_values.get(col_idx), which finds nothing
fill_defaults_wrong_key(ws, excel_row, header_indices, base_values) ==
  LET keys == {<<excel_row, header_indices[n]>> : n \in DOMAIN header_indices}
  IN  [ws EXCEPT !.cells = [k \in DOMAIN ws.cells \cup keys |->
         IF k \in keys THEN [CellAt(ws, k[1], k[2]) EXCEPT !.value = None]
         ELSE ws.cells[k]]]

\* 4.1: the row is filled with the defaults of the template
FillDefaults(ws, excel_row, header_indices, base_values) ==
  LET keys == {<<excel_row, header_indices[n]>> : n \in DOMAIN header_indices}
      name(k) == CHOOSE n \in DOMAIN header_indices : header_indices[n] = k[2]
  IN  [ws EXCEPT !.cells = [k \in DOMAIN ws.cells \cup keys |->
         IF k \in keys THEN [CellAt(ws, k[1], k[2]) EXCEPT !.value = base_values[name(k)]]
         ELSE ws.cells[k]]]

\* 4.2: the loop over INPUT_TO_DGAV_COLMAP from its k-th entry on
RECURSIVE WriteMapped(_, _, _, _, _, _, _)
WriteMapped(ws, excel_row, k, header_indices, input_colmap, columns, row_in) ==
  IF k > Len(INPUT_TO_DGAV_COLMAP) THEN ws
  ELSE LET dgav_col == INPUT_TO_DGAV_COLMAP[k].dgav
           df_col_name == input_colmap[dgav_col]
           ws1 == IF ~HasColumn(header_indices, Norm(dgav_col)) THEN ws
                  ELSE IF ~Truthy(df_col_name) THEN ws
                  ELSE SetValue(ws, excel_row, header_indices[Norm(dgav_col)],
                                Transform(RowGet(columns, row_in, df_col_name)))
       IN  WriteMapped(ws1, excel_row, k + 1, header_indices, input_colmap, columns, row_in)

\* a plausible slip: the mapped values are written first, the defaults after
write_row_defaults_last(ws, excel_row, header_indices, base_values, input_colmap, columns, row_in) ==
  FillDefaults(WriteMapped(ws, excel_row, 1, header_indices, input_colmap, columns, row_in),
               excel_row, header_indices, base_values)

\* one pass of the loop of line 235
WriteRow(ws, excel_row, header_indices, base_values, input_colmap, columns, row_in) ==
  WriteMapped(FillDefaults(ws, excel_row, header_indices, base_values),
              excel_row, 1, header_indices, input_colmap, columns, row_in)

\* excel_row of line 236, i counted from 0
ExcelRow(i) == start_row + i

\* the loop of line 235 from the i-th row of df_in on (i counted from 0)
RECURSIVE WriteRows(_, _, _, _, _, _)
WriteRows(ws, i, header_indices, base_values, input_colmap, df_in) ==
  IF i >= Len(df_in.rows) THEN ws
  ELSE WriteRows(WriteRow(ws, ExcelRow(i), header_indices, base_values, input_colmap,
                          df_in.columns, df_in.rows[i + 1]),
                 i + 1, header_indices, base_values, input_colmap, df_in)

EmptySheet == [cells |-> <<>>, tables |-> <<>>, validations |-> <<>>]
EmptyFrame == [ok |-> FALSE, columns |-> <<>>, index |-> <<>>, rows |-> <<>>]

\* what a call leaves: status is "ok" or the exception raised; bytes the saved
\* workbook's sheet "Default"; n_samples the number in the log message; df_in
\* and input_colmap the locals of the call
Raised(exc) ==
  [status |-> exc, bytes |-> EmptySheet, n_samples |-> 0,
   df_in |-> EmptyFrame, input_colmap |-> <<>>]

\* lines 223-225: reading row 1 and row 2 creates their cells
ReadHeaderRow(ws) == Touch(ws, {<<1, c>> : c \in 1..max_column(ws)})
ReadDefaultRow(ws, header_indices) ==
  Touch(ws, {<<2, header_indices[n]>> : n \in DOMAIN header_indices})

\* lines 228-229
DeleteTemplateRows(ws) ==
  IF max_row(ws) > 1 THEN delete_rows(ws, 2, max_row(ws) - 1) ELSE ws

\* lines 267-268
MarkIfSamples(ws, n_samples, header_indices, last_row) ==
  IF n_samples > 0
  THEN _mark_required_empty_columns(ws, header_indices, start_row, last_row)
  ELSE ws

\* lines 271-272
TrimBelow(ws, last_row) ==
  IF max_row(ws) > last_row
  THEN delete_rows(ws, last_row + 1, max_row(ws) - last_row)
  ELSE ws

\* lines 276-282
ResizeTables(ws, last_row) ==
  [ws EXCEPT !.tables = [t \in DOMAIN ws.tables |-> ResizeTable(ws.tables[t], last_row)]]

\* lines 223-282 on the loaded template
FillTemplate(ws, df_in, input_colmap, header_indices, last_row) ==
  ResizeTables(
    TrimBelow(
      MarkIfSamples(
        WriteRows(DeleteTemplateRows(ReadDefaultRow(ReadHeaderRow(ws), header_indices)),
                  0, header_indices, BaseValues(ReadHeaderRow(ws), header_indices),
                  input_colmap, df_in),
        Len(df_in.rows), header_indices, last_row),
      last_row),
    last_row)

Converted(ws, df_in) ==
  [status |-> "ok",
   bytes |-> FillTemplate(ws, df_in, _map_input_columns(df_in), _build_header_index(ws),
                          LastRow(Len(df_in.rows))),
   n_samples |-> Len(df_in.rows), df_in |-> df_in,
   input_colmap |-> _map_input_columns(df_in)]

\* a plausible slip: the input is loaded before the template is looked for
process_loads_input_first(template_exists, template, uploaded_file) ==
  IF ~_load_pre_registo_df(uploaded_file).ok THEN Raised("ValueError")
  ELSE IF ~template_exists THEN Raised("FileNotFoundError")
  ELSE Converted(template, _load_pre_registo_df(uploaded_file))

process_pre_to_dgav(template_exists, template, uploaded_file) ==
  IF ~template_exists THEN Raised("FileNotFoundError")
  ELSE IF ~_load_pre_registo_df(uploaded_file).ok THEN Raised("ValueError")
  ELSE Converted(template, _load_pre_registo_df(uploaded_file))


\* ------------------------------------------------------ analyse_output_xlsx
\* load_workbook(BytesIO(xlsx_bytes), data_only=True) of a workbook openpyxl
\* saved: a cell with neither value nor style nor comment was not written, a
\* formula has no cached value, a date comes back as a datetime at midnight
Midnight ==
  <<"0","0",":","0","0",":","0","0">>
HasStyle(cell) == cell.style # "default" \/ cell.fill # "none"
ReadBack(v) ==
  CASE v.t = "formula" -> None
    [] v.t = "date"    -> DateTimeV(v.s, Midnight)
    [] OTHER           -> v
Reload(ws) ==
  LET written == {k \in DOMAIN ws.cells :
                    ws.cells[k].value.t # "None" \/ HasStyle(ws.cells[k])
                      \/ ws.cells[k].comment # "none"}
  IN  [ws EXCEPT !.cells =
         [k \in written |-> [ws.cells[k] EXCEPT !.value = ReadBack(ws.cells[k].value)]]]

\* the loop over REQUIRED_DGAV_COLS of lines 52-66 from its k-th name on
RECURSIVE HardWarningsFrom(_, _, _, _, _)
HardWarningsFrom(ws, k, header_indices, last_row, hard_warnings) ==
  IF k > Len(REQUIRED_DGAV_COLS) THEN hard_warnings
  ELSE LET col_name == REQUIRED_DGAV_COLS[k]
           name == Norm(col_name)
           next(h) == HardWarningsFrom(ws, k + 1, header_indices, last_row, h)
       IN  IF ~HasColumn(header_indices, name)
           THEN next(Append(hard_warnings, [kind |-> "ausente", col_name |-> col_name]))
           ELSE IF \E row \in 2..last_row : IsEmpty(CellAt(ws, row, header_indices[name]).value)
           THEN next(Append(hard_warnings, [kind |-> "vazias", col_name |-> col_name]))
           ELSE next(hard_warnings)

\* (sample_count, warnings, hard_warnings); a hard warning is "Coluna obrigatória
\* ausente no output" (kind "ausente") or "Coluna obrigatória com células
\* vazias" (kind "vazias") with the column it names
analyse_output_xlsx(xlsx_bytes) ==
  LET ws == Reload(xlsx_bytes)
      header_indices == _build_header_index(ws)
      name == Norm(CODIGO_AMOSTRA)
      has_codigo == HasColumn(header_indices, name)
      filled == IF has_codigo
                THEN {row \in 2..max_row(ws) : ~IsEmpty(CellAt(ws, row, header_indices[name]).value)}
                ELSE {}
      sample_count == Cardinality(filled)
      last_row == IF has_codigo THEN (IF filled = {} THEN 1 ELSE Greatest(filled))
                  ELSE max_row(ws)
      hard0 == IF has_codigo THEN <<>>
               ELSE <<[kind |-> "ausente", col_name |-> CODIGO_AMOSTRA]>>
  IN  [sample_count |-> sample_count, warnings |-> <<>>,
       hard_warnings |-> HardWarningsFrom(ws, 1, header_indices, last_row, hard0)]

\* ------------------------------------------------------------------ inputs
\* header rows of an uploaded pre-registo: both columns labelled as the form
\* labels them (host first); the sample code column labelled as another
\* revision does and no host column; a sample code column that only the
\* fallback finds; the sample code column twice, under two spellings
InputHeaders ==
  { <<StrV(LabelOf(HOSPEDEIRO)), StrV(HeaderTarget)>>,
    <<StrV(AnchorVariant), None>>,
    <<StrV(FallbackLabel), StrV(LabelOf(HOSPEDEIRO))>>,
    <<StrV(HeaderTarget), StrV(AnchorVariant)>> }

\* the rows above the header row: none, or one title line
InputTitles == { <<>>, << <<StrV(TitleText), None>> >> }

\* the values of a cell of a data row
DataValues == { None, StrV(SampleCode), DateTimeV(SampleDate, SampleTime) }
DataRow == { <<a, b>> : a \in DataValues, b \in DataValues }

SeqsUpTo(S, n) == UNION { [1..m -> S] : m \in 0..n }

\* the sheets with a header row, and two that have none
UploadedFiles ==
  { t \o <<h>> \o d : t \in InputTitles, h \in InputHeaders, d \in SeqsUpTo(DataRow, MaxDataRows) }
    \cup { << <<StrV(PlainText), None>> >>,
           << <<StrV(PlainText), None>>, <<StrV(SampleCode), StrV(SampleCode)>> >> }

\* a cell of the template: its header cells and its data cells are styled
HeaderCell(v) == [value |-> v, style |-> "header", fill |-> "none",
                  hyperlink |-> "none", comment |-> "none"]
TemplateCell(v, c) ==
  [value |-> v, style |-> "template", fill |-> "none",
   hyperlink |-> IF c = 2 THEN "link" ELSE "none",
   comment |-> IF c = 1 THEN "note" ELSE "none"]

\* header rows of the sheet "Default": the three columns; a revision without
\* HOSPEDEIRO whose second column has no header; one without CODIGO_AMOSTRA
TemplateHeaders ==
  { <<StrV(CODIGO_AMOSTRA), StrV(HOSPEDEIRO), StrV(PREP_COMMENTS)>>,
    <<StrV(DgavCodigoVariant), None, StrV(PREP_COMMENTS)>>,
    <<StrV(HOSPEDEIRO), StrV(PREP_COMMENTS), None>> }

\* rows 2.. of the template, by the number of rows of the sheet
TemplateDefaults(template_rows) ==
  IF template_rows = 2
  THEN { <<None, None, None>>,
         <<None, StrV(TemplateText), None>>,
         <<StrV(TemplateText), StrV(<<>>), FormulaV(TemplateFormula)>> }
  ELSE { <<FormulaV(TemplateFormula), StrV(TemplateText), StrV(<<>>)>> }

\* the sheet with the header row hdr and template_rows - 1 rows of the values
\* row2, one table over its cells and one declared down to row 1000, a value list
\* over column B sized as the sheet and one over column C down to row 1000
Sheet(hdr, row2, template_rows) ==
  LET last == IF template_rows < 2 THEN 2 ELSE template_rows
  IN  [cells |->
         [k \in (1..template_rows) \X (1..Len(hdr)) |->
            IF k[1] = 1 THEN HeaderCell(hdr[k[2]]) ELSE TemplateCell(row2[k[2]], k[2])],
       tables |->
         << [name |-> "Tabela1", ref |-> <<"A","1",":","C">> \o IntText(last)],
            [name |-> "Tabela2", ref |-> <<"$","E","$","1",":","$","F","$","1","0","0","0">>] >>,
       validations |->
         << [column |-> "B", first_row |-> 2, last_row |-> last],
            [column |-> "C", first_row |-> 2, last_row |-> 1000] >>]

Templates ==
  { Sheet(hdr, <<None, None, None>>, 1) : hdr \in TemplateHeaders }
    \cup UNION { { Sheet(hdr, row2, n) : hdr \in TemplateHeaders, row2 \in TemplateDefaults(n) } :
                 n \in 2..MaxTemplateRows }

\* ------------------------------------------------------------ state machine
VARIABLES
  template_exists,  \* DGAV_TEMPLATE_PATH.exists()
  template,         \* the sheet "Default" of the template on disk
  uploaded_file,    \* the rows of the active sheet of the upload (ws.values)
  pc,               \* "uploaded", "converted", "failed", "analysed";
                    \* "grid", "located", "not found" for _find_header_row alone;
                    \* "script", "loop" for the script of app.py
  result,           \* what process_pre_to_dgav left
  analysis,         \* what analyse_output_xlsx returned
  df_raw,           \* a grid handed to _find_header_row
  header_row,       \* what _find_header_row returned for df_raw
  session_state,    \* st.session_state: stage, uploads, results
  file_i,           \* the files the loop of app.py line 287 has gone through
  outputs,          \* the locals of the processing stage, lines 278-283
  summary_lines,
  file_statuses,
  total_samples,
  warning_files,
  error_files

\* the locals of the processing stage
batch_vars ==
  <<file_i, outputs, summary_lines, file_statuses, total_samples, warning_files, error_files>>

vars == <<template_exists, template, uploaded_file, pc, result, analysis, df_raw, header_row,
          session_state, batch_vars>>

\* st.session_state.results is None
NoResults ==
  [done |-> FALSE, outputs |-> <<>>, summary_lines |-> <<>>, total_samples |-> 0,
   warning_files |-> 0, error_files |-> 0, file_statuses |-> <<>>]

\* lines 148-153: the session before anything was uploaded
IdleSession == [stage |-> "idle", uploads |-> <<>>, results |-> NoResults]

\* lines 278-283
FreshLocals ==
  /\ file_i = 0
  /\ outputs = <<>>
  /\ summary_lines = <<>>
  /\ file_statuses = <<>>
  /\ total_samples = 0
  /\ warning_files = 0
  /\ error_files = 0

NoAnalysis == [sample_count |-> 0, warnings |-> <<>>, hard_warnings |-> <<>>]
NoHeaderRow == [found |-> FALSE, idx |-> 0]

Init ==
  /\ \/ template_exists = TRUE /\ template \in Templates
     \/ template_exists = FALSE /\ template = EmptySheet
  /\ uploaded_file \in UploadedFiles
  /\ pc = "uploaded"
  /\ result = Raised("none")
  /\ analysis = NoAnalysis
  /\ df_raw = <<>>
  /\ header_row = NoHeaderRow
  /\ session_state = IdleSession
  /\ FreshLocals

\* output_bytes, log_msg = process_pre_to_dgav(data_in)
Convert ==
  /\ pc = "uploaded"
  /\ result' = process_pre_to_dgav(template_exists, template, uploaded_file)
  /\ pc' = IF result'.status = "ok" THEN "converted" ELSE "failed"
  /\ UNCHANGED <<template_exists, template, uploaded_file, analysis, df_raw, header_row>>
  /\ UNCHANGED <<session_state, batch_vars>>

\* sample_count, col_warnings, hard_warnings = analyse_output_xlsx(output_bytes)
Analyse ==
  /\ pc = "converted"
  /\ analysis' = analyse_output_xlsx(result.bytes)
  /\ pc' = "analysed"
  /\ UNCHANGED <<template_exists, template, uploaded_file, result, df_raw, header_row>>
  /\ UNCHANGED <<session_state, batch_vars>>

Next == Convert \/ Analyse

Spec == Init /\ [][Next]_vars

\* ------------------------------------------- _find_header_row on its own
\* the cells of the first and of the second column of a grid
AnchorCells ==
  { None, StrV(HeaderTarget), StrV(AnchorVariant), StrV(FallbackLabel), StrV(PlainText) }
OtherCells == { None, StrV(TitleText) }
GridRow == { <<a, b>> : a \in AnchorCells, b \in OtherCells }
Grids == SeqsUpTo(GridRow, MaxGridRows)

InitHeader ==
  /\ df_raw \in Grids
  /\ header_row = NoHeaderRow
  /\ pc = "grid"
  /\ template_exists = FALSE
  /\ template = EmptySheet
  /\ uploaded_file = <<>>
  /\ result = Raised("none")
  /\ analysis = NoAnalysis
  /\ session_state = IdleSession
  /\ FreshLocals

\* header_row = _find_header_row(df_raw, "Código_amostra (...)")
FindHeader ==
  /\ pc = "grid"
  /\ header_row' = _find_header_row(df_raw, HeaderTarget)
  /\ pc' = IF header_row'.found THEN "located" ELSE "not found"
  /\ UNCHANGED <<template_exists, template, uploaded_file, result, analysis, df_raw>>
  /\ UNCHANGED <<session_state, batch_vars>>

NextHeader == FindHeader

SpecHeader == InitHeader /\ [][NextHeader]_vars


\* --------------------------------------------- the processing stage of app.py
\* the files a user uploads: one without a header row, one with the header row
\* alone, one with two records of which the second has no host
BatchFiles ==
  { [name |-> "sem_cabecalho.xlsx",
     buffer |-> << <<StrV(PlainText), None>> >>],
    [name |-> "vazio.xlsx",
     buffer |-> << <<StrV(LabelOf(HOSPEDEIRO)), StrV(HeaderTarget)>> >>],
    [name |-> "amostras.xlsx",
     buffer |-> << <<StrV(LabelOf(HOSPEDEIRO)), StrV(HeaderTarget)>>,
                   <<StrV(SampleCode), StrV(SampleCode)>>,
                   <<None, StrV(SampleCode)>> >>] }

\* st.file_uploader(accept_multiple_files=True) with at least one file
BatchUploads == SeqsUpTo(BatchFiles, MaxUploads) \ {<<>>}

\* the template next to processor.py, when it is there
BatchTemplate ==
  Sheet(<<StrV(CODIGO_AMOSTRA), StrV(HOSPEDEIRO), StrV(PREP_COMMENTS)>>,
        <<None, None, StrV(TemplateText)>>, 2)

InitBatch ==
  /\ \/ template_exists = TRUE /\ template = BatchTemplate
     \/ template_exists = FALSE /\ template = EmptySheet
  /\ uploaded_file = <<>>
  /\ pc = "script"
  /\ result = Raised("none")
  /\ analysis = NoAnalysis
  /\ df_raw = <<>>
  /\ header_row = NoHeaderRow
  /\ session_state = IdleSession
  /\ FreshLocals

\* lines 258-263: the button "Processar ficheiros de Input", then st.rerun()
Submit ==
  /\ pc = "script"
  /\ session_state.stage = "idle"
  /\ \E uploads \in BatchUploads :
       session_state' = [stage |-> "processing", uploads |-> uploads, results |-> NoResults]
  /\ UNCHANGED <<template_exists, template, uploaded_file, pc, result, analysis, df_raw,
                 header_row, batch_vars>>

\* lines 267-283: a run of the script in the stage "processing" that finds no
\* results starts the loop
BeginProcessing ==
  /\ pc = "script"
  /\ session_state.stage = "processing"
  /\ ~session_state.results.done
  /\ pc' = "loop"
  /\ UNCHANGED <<template_exists, template, uploaded_file, result, analysis, df_raw,
                 header_row, session_state, batch_vars>>

\* a plausible slip: the failed file is not counted
error_not_counted(n) == n

\* line 343
CountError(n) == n + 1

\* lines 304-340: the rest of the try once both calls returned
Processed(up, output_bytes, scan, status_class) ==
  /\ total_samples' = total_samples + scan.sample_count
  /\ warning_files' = IF status_class = "warning" THEN warning_files + 1 ELSE warning_files
  /\ outputs' = Append(outputs,
        [name |-> up.name, bytes |-> output_bytes,
         sample_count |-> scan.sample_count, col_warnings |-> scan.warnings,
         hard_warnings |-> scan.hard_warnings, status_class |-> status_class])
  /\ summary_lines' = Append(summary_lines,
        [name |-> up.name, sample_count |-> scan.sample_count,
         text |-> "amostras", warnings |-> scan.hard_warnings \o scan.warnings])
  /\ file_statuses' = Append(file_statuses,
        [name |-> up.name, sample_count |-> scan.sample_count,
         status_class |-> status_class,
         message |-> IF status_class = "warning" THEN "Avisos" ELSE ""])
  /\ UNCHANGED error_files

\* lines 307-314
StatusClass(scan) ==
  IF scan.hard_warnings # <<>> \/ scan.warnings # <<>> THEN "warning" ELSE "success"

\* lines 303-340
Analysed(up, output_bytes, scan) == Processed(up, output_bytes, scan, StatusClass(scan))

\* lines 342-361: except Exception as e
Failed(up, e) ==
  /\ error_files' = CountError(error_files)
  /\ summary_lines' = Append(summary_lines,
        [name |-> up.name, sample_count |-> 0, text |-> e, warnings |-> <<>>])
  /\ file_statuses' = Append(file_statuses,
        [name |-> up.name, sample_count |-> 0, status_class |-> "error", message |-> e])
  /\ UNCHANGED <<total_samples, warning_files, outputs>>

\* lines 299-361: the try and its except, given what process_pre_to_dgav left
TryFile(up, converted) ==
  IF converted.status = "ok"
  THEN Analysed(up, converted.bytes, analyse_output_xlsx(converted.bytes))
  ELSE Failed(up, converted.status)

\* lines 287-363: one pass of the loop
ProcessFile ==
  /\ pc = "loop"
  /\ file_i < Len(session_state.uploads)
  /\ TryFile(session_state.uploads[file_i + 1],
             process_pre_to_dgav(template_exists, template,
                                 session_state.uploads[file_i + 1].buffer))
  /\ file_i' = file_i + 1
  /\ UNCHANGED <<template_exists, template, uploaded_file, pc, result, analysis, df_raw,
                 header_row, session_state>>

\* lines 366-370: the last lines of the summary (the line with the clock left out)
FinalLines ==
  << [name |-> "", sample_count |-> 0, text |-> "", warnings |-> <<>>],
     [name |-> "", sample_count |-> Len(outputs), text |-> "Total de ficheiros", warnings |-> <<>>],
     [name |-> "", sample_count |-> total_samples, text |-> "Total de amostras", warnings |-> <<>>],
     [name |-> "", sample_count |-> warning_files, text |-> "Ficheiros com avisos", warnings |-> <<>>],
     [name |-> "", sample_count |-> error_files, text |-> "Ficheiros com erro", warnings |-> <<>>] >>

\* lines 365-385: the loop is over, the results go to the session and the run
\* of the script ends with its locals
FinishProcessing ==
  /\ pc = "loop"
  /\ file_i = Len(session_state.uploads)
  /\ session_state' = [session_state EXCEPT !.results =
       [done |-> TRUE, outputs |-> outputs, summary_lines |-> summary_lines \o FinalLines,
        total_samples |-> total_samples, warning_files |-> warning_files,
        error_files |-> error_files, file_statuses |-> file_statuses]]
  /\ pc' = "script"
  /\ file_i' = 0
  /\ outputs' = <<>>
  /\ summary_lines' = <<>>
  /\ file_statuses' = <<>>
  /\ total_samples' = 0
  /\ warning_files' = 0
  /\ error_files' = 0
  /\ UNCHANGED <<template_exists, template, uploaded_file, result, analysis, df_raw, header_row>>

\* reset_app (lines 156-159), the button "Novo processamento" under the results
reset_app ==
  /\ pc = "script"
  /\ session_state.stage = "processing"
  /\ session_state.results.done
  /\ session_state' = IdleSession
  /\ UNCHANGED <<template_exists, template, uploaded_file, pc, result, analysis, df_raw,
                 header_row, batch_vars>>

NextBatch == Submit \/ BeginProcessing \/ ProcessFile \/ FinishProcessing \/ reset_app

SpecBatch == InitBatch /\ [][NextBatch]_vars

\* ------------------------------------------------------------------ claims
Done == pc \in {"converted", "analysed"}
Out == result.bytes
N == Len(result.df_in.rows)
RequiredCols == {REQUIRED_DGAV_COLS[k] : k \in 1..Len(REQUIRED_DGAV_COLS)}
\* the columns of the output whose header is the DGAV column dgav_col
ColumnsOf(ws, dgav_col) ==
  {c \in 1..max_column(ws) :
     Truthy(CellAt(ws, 1, c).value) /\ _norm(CellAt(ws, 1, c).value) = Norm(dgav_col)}
Flagged(ws, c) == CellAt(ws, 1, c).fill = RedFill
Resolved(dgav_col) == Truthy(result.input_colmap[dgav_col])
\* the default of column c: the value of row 2 of the template
Default(c) == CellAt(template, 2, c).value

\* C1: after a successful conversion that selected N records the sheet holds
\* the header row and the rows 2..N+1, each with cells, and no other row, and
\* the log message reports N
C1_HeaderPlusNRows ==
  Done => /\ Rows(Out) = 1..(N + 1)
          /\ result.n_samples = N

C1_Witness ==
  /\ Done
  /\ N = 2
  /\ max_row(template) = MaxTemplateRows
  /\ Rows(Out) = 1..3

\* C2: when the sample code column resolved, a row below the header row is a
\* record if and only if its sample code is present and, stripped, not empty
C2_KeptIffSampleCode ==
  (Done /\ Resolved(CODIGO_AMOSTRA)) =>
    LET hr == _find_header_row(uploaded_file, HeaderTarget)
        kept == {result.df_in.index[k] : k \in 1..Len(result.df_in.index)}
        code(i) == RowGet(result.df_in.columns, uploaded_file[i],
                          result.input_colmap[CODIGO_AMOSTRA])
    IN  \A i \in (hr.idx + 2)..Len(uploaded_file) :
          (i - 1 \in kept) <=> (~IsNA(code(i)) /\ Strip(Str(code(i))) # <<>>)

\* C3: the number of records the conversion reports is the number of samples
\* the re-scan of the generated document counts in its CODIGO_AMOSTRA column
C3_CountRoundTrip ==
  (pc = "analysed" /\ ColumnsOf(Out, CODIGO_AMOSTRA) # {}) =>
    result.n_samples = analysis.sample_count

HardWarnings == {analysis.hard_warnings[k] : k \in 1..Len(analysis.hard_warnings)}

\* C4: for a required field with a column in the output header, the conversion
\* flags the header if and only if the re-scan reports the column as having
\* empty cells
C4_FlagsMatchRescan ==
  (pc = "analysed" /\ ColumnsOf(Out, CODIGO_AMOSTRA) # {}) =>
    \A f \in RequiredCols : \A c \in ColumnsOf(Out, f) :
      Flagged(Out, c) <=> ([kind |-> "vazias", col_name |-> f] \in HardWarnings)

\* C5: a header cell is flagged if and only if its column is that of a required
\* field and a cell of the column in the rows 2..N+1 is absent or empty
C5_FlagIffRequiredWithEmptyCell ==
  Done =>
    \A c \in 1..max_column(Out) :
      Flagged(Out, c) <=>
        /\ \E f \in RequiredCols : c \in ColumnsOf(Out, f)
        /\ \E r \in 2..(N + 1) : IsEmpty(CellAt(Out, r, c).value)

C5_Witness ==
  /\ Done
  /\ N = 2
  /\ \E c \in ColumnsOf(Out, HOSPEDEIRO) :
       /\ Flagged(Out, c)
       /\ ~IsEmpty(CellAt(Out, 2, c).value)
       /\ IsEmpty(CellAt(Out, 3, c).value)
  /\ \E c \in ColumnsOf(Out, PREP_COMMENTS) :
       ~Flagged(Out, c) /\ IsEmpty(CellAt(Out, 2, c).value)
  /\ ColumnsOf(Out, CODIGO_AMOSTRA) # {}
  /\ \A c \in ColumnsOf(Out, CODIGO_AMOSTRA) : ~Flagged(Out, c)

\* C6: after a successful conversion every value list of the sheet covers the
\* rows 2..N+1 of its column, the template row alone if N = 0
C6_ValidationsCoverDataRows ==
  Done =>
    \A k \in 1..Len(Out.validations) :
      /\ Out.validations[k].first_row = 2
      /\ Out.validations[k].last_row = (IF N = 0 THEN 2 ELSE N + 1)

\* C7: after a successful conversion every table keeps its start cell and its
\* end column and ends at row N+1, which is the header row when N = 0
C7_TableEndsAtLastRow ==
  Done =>
    /\ Len(Out.tables) = Len(template.tables)
    /\ \A k \in 1..Len(Out.tables) :
         LET old == template.tables[k].ref
             new == Out.tables[k].ref
         IN  /\ RefStartCol(new) = RefStartCol(old)
             /\ RefStartRow(new) = RefStartRow(old)
             /\ RefEndCol(new) = RefEndCol(old)
             /\ RefEndRow(new) = N + 1
             /\ (N = 0 => RefEndRow(new) = RefStartRow(new))

C7_Witness ==
  /\ Done
  /\ N = 2
  /\ \E k \in 1..Len(Out.tables) :
       /\ RefEndRow(template.tables[k].ref) > 3
       /\ RefEndRow(Out.tables[k].ref) = 3
       /\ RefStartCol(Out.tables[k].ref) = <<"E">>

\* C8: every output row carries, in every column of the template, the style,
\* the hyperlink and the comment of the template row, and its value unless a
\* mapped field overwrote it
C8_RowsCopyTemplateRow ==
  Done =>
    \A r \in 2..(N + 1) : \A c \in 1..max_column(template) :
      LET tc == CellAt(template, 2, c)
          oc == CellAt(Out, r, c)
      IN  /\ oc.style = tc.style
          /\ oc.hyperlink = tc.hyperlink
          /\ oc.comment = tc.comment
          /\ \/ oc.value = tc.value
             \/ \E d \in DgavCols : c \in ColumnsOf(Out, d) /\ Resolved(d)

\* C9 as claimed: when the source column of a required field did not resolve,
\* every output row holds the default in the field's column and, for every N,
\* the header is flagged whenever the default is empty
C9_AbsentSourceFlaggedForEveryN ==
  Done =>
    \A f \in RequiredCols : \A c \in ColumnsOf(Out, f) :
      ~Resolved(f) =>
        /\ \A r \in 2..(N + 1) : CellAt(Out, r, c).value = Default(c)
        /\ IsEmpty(Default(c)) => Flagged(Out, c)

\* C9 (amended): when the source column of a required field did not resolve,
\* every output row holds the default in the field's column, and the header is
\* flagged exactly when the default is empty and there is at least one record
C9_AbsentSourceKeepsDefault ==
  Done =>
    \A f \in RequiredCols : \A c \in ColumnsOf(Out, f) :
      ~Resolved(f) =>
        /\ \A r \in 2..(N + 1) : CellAt(Out, r, c).value = Default(c)
        /\ Flagged(Out, c) <=> (IsEmpty(Default(c)) /\ N >= 1)

C9_Witness ==
  /\ Done
  /\ N = 2
  /\ ~Resolved(HOSPEDEIRO)
  /\ \E c \in ColumnsOf(Out, HOSPEDEIRO) :
       /\ Default(c) = StrV(TemplateText)
       /\ CellAt(Out, 2, c).value = StrV(TemplateText)
       /\ CellAt(Out, 3, c).value = StrV(TemplateText)
       /\ ~Flagged(Out, c)

\* C10: _find_header_row returns the topmost row with a cell whose normalized
\* text is the normalized anchor label; if there is none, the topmost row with
\* a cell that contains the fallback substring; if there is none either, it fails
ExactRows == {i \in 1..Len(df_raw) : \E c \in 1..Len(df_raw[i]) :
                Norm(Str(df_raw[i][c])) = Norm(HeaderTarget)}
FallbackRows == {i \in 1..Len(df_raw) : \E c \in 1..Len(df_raw[i]) :
                   Contains(Norm(Str(df_raw[i][c])), FallbackSubstring)}
C10_TwoTierHeader ==
  pc \in {"located", "not found"} =>
    /\ ExactRows # {} => header_row = [found |-> TRUE, idx |-> Least(ExactRows) - 1]
    /\ (ExactRows = {} /\ FallbackRows # {}) =>
         header_row = [found |-> TRUE, idx |-> Least(FallbackRows) - 1]
    /\ (ExactRows = {} /\ FallbackRows = {}) => (~header_row.found /\ pc = "not found")

C10_Witness ==
  /\ pc = "located"
  /\ Len(df_raw) = 3
  /\ 1 \in FallbackRows
  /\ ExactRows = {3}
  /\ header_row.idx = 2

\* C11: a conversion without the template fails with FileNotFoundError, also
\* when the input has no header row; with the template and no header row it
\* fails with ValueError; a failed conversion returns no bytes; a conversion
\* that returned bytes had the template and a header row, and its bytes show
\* the rows written, the required columns flagged and the tables resized
HasHeaderRow(rows) ==
  \E i \in 1..Len(rows) : \E c \in 1..Len(rows[i]) :
    \/ Norm(Str(rows[i][c])) = Norm(HeaderTarget)
    \/ Contains(Norm(Str(rows[i][c])), FallbackSubstring)
C11_FatalErrorsBeforeBytes ==
  pc # "uploaded" =>
    /\ ~template_exists =>
         (pc = "failed" /\ result.status = "FileNotFoundError")
    /\ (template_exists /\ ~HasHeaderRow(uploaded_file)) =>
         (pc = "failed" /\ result.status = "ValueError")
    /\ pc = "failed" => (result.bytes = EmptySheet /\ result.status # "ok")
    /\ Done =>
         /\ result.status = "ok"
         /\ template_exists /\ HasHeaderRow(uploaded_file)
         /\ Rows(Out) = 1..(N + 1)
         /\ N >= 1 =>
              \A f \in RequiredCols : \A c \in ColumnsOf(Out, f) :
                (\E r \in 2..(N + 1) : IsEmpty(CellAt(Out, r, c).value)) => Flagged(Out, c)
         /\ \A k \in 1..Len(Out.tables) : RefEndRow(Out.tables[k].ref) = LastRow(N)

C11_Witness ==
  /\ pc = "failed"
  /\ ~template_exists
  /\ ~HasHeaderRow(uploaded_file)
  /\ result.status = "FileNotFoundError"
  /\ result.bytes = EmptySheet

\* C12: the k-th row below the header row of the upload that has a cell which
\* is not NA is written to row k+1; there, a column with a header holds the
\* record's value in the source column of the column's field (a datetime as its
\* date, NaN as None) when the field has a source column, and the value of row
\* 2 of the template otherwise
HasValue(row) == ~AllNA(row)
Records ==
  LET hr == _find_header_row(uploaded_file, HeaderTarget)
  IN  SelectSeq(SubSeq(uploaded_file, hr.idx + 2, Len(uploaded_file)), HasValue)
\* the columns of the upload labelled as the field dgav_col is
SourceCols(dgav_col) ==
  LET header == uploaded_file[_find_header_row(uploaded_file, HeaderTarget).idx + 1]
  IN  {c \in 1..Len(header) : _norm(header[c]) = Norm(LabelOf(dgav_col))}
Expected(v) ==
  CASE v.t = "nan" -> None
    [] v.t = "datetime" -> DateV(v.s)
    [] OTHER -> v
C12_DefaultsThenMappedValues ==
  Done =>
    /\ N = Len(Records)
    /\ \A k \in 1..Len(Records) : \A c \in 1..max_column(Out) :
         Truthy(CellAt(Out, 1, c).value) =>
           LET fields == {d \in DgavCols : c \in ColumnsOf(Out, d) /\ SourceCols(d) # {}}
               cell == CellAt(Out, k + 1, c).value
           IN  IF fields = {} THEN cell = Default(c)
               ELSE \A d \in fields : cell = Expected(Records[k][Greatest(SourceCols(d))])

C12_Witness ==
  /\ Done
  /\ N = 2
  /\ \E c \in ColumnsOf(Out, CODIGO_AMOSTRA) :
       /\ Default(c) = StrV(TemplateText)
       /\ SourceCols(CODIGO_AMOSTRA) # {}
       /\ CellAt(Out, 2, c).value = DateV(SampleDate)
       /\ CellAt(Out, 3, c).value = StrV(SampleCode)
  /\ \E c \in ColumnsOf(Out, PREP_COMMENTS) :
       /\ SourceCols(PREP_COMMENTS) = {}
       /\ CellAt(Out, 2, c).value = FormulaV(TemplateFormula)
       /\ CellAt(Out, 3, c).value = FormulaV(TemplateFormula)

\* C13: while the loop runs, the files it has gone through are the first file_i
\* uploads, each with one entry of file_statuses under its name, in upload
\* order, marked "error" exactly when its conversion fails, and outputs and
\* error_files together count them; when the loop has ended this holds of all
\* the uploads, whichever of them failed
Uploads == session_state.uploads
Converts(up) == template_exists /\ HasHeaderRow(up.buffer)
\* the names of the first n uploads that convert, in upload order
RECURSIVE ConvertedNames(_)
ConvertedNames(n) ==
  IF n = 0 THEN <<>>
  ELSE ConvertedNames(n - 1) \o
         (IF Converts(Uploads[n]) THEN <<Uploads[n].name>> ELSE <<>>)
Accounted(n, outs, errors, statuses) ==
  /\ Len(statuses) = n
  /\ Len(outs) + errors = n
  /\ \A k \in 1..n :
       /\ statuses[k].name = Uploads[k].name
       /\ (statuses[k].status_class = "error") <=> ~Converts(Uploads[k])
  /\ [k \in 1..Len(outs) |-> outs[k].name] = ConvertedNames(n)
C13_BatchAccounting ==
  /\ pc = "loop" =>
       /\ file_i <= Len(Uploads)
       /\ Accounted(file_i, outputs, error_files, file_statuses)
  /\ session_state.results.done =>
       Accounted(Len(Uploads), session_state.results.outputs,
                 session_state.results.error_files, session_state.results.file_statuses)

C13_Witness ==
  /\ session_state.results.done
  /\ Len(Uploads) = 3
  /\ ~Converts(Uploads[1])
  /\ Converts(Uploads[2])
  /\ ~Converts(Uploads[3])
  /\ session_state.results.error_files = 2
  /\ Len(session_state.results.outputs) = 1
  /\ session_state.results.file_statuses[2].status_class = "warning"
  /\ session_state.results.file_statuses[3].status_class = "error"

====
